---- MODULE Spec2Model ----
(***************************************************************************)
(* A model of l4d2_server_scanner.py: the fetch / merge / filter / probe / *)
(* score / rank pipeline of generate_ranked_rows.                          *)
(*                                                                         *)
(* Python strings are sequences of one-character strings, so that split,   *)
(* startswith, lower, "in", isdigit and int() are computed, not assumed.   *)
(* Latencies are integers in tenths of a millisecond (ping_ms * 10); the   *)
(* raw round-trip time printed by ping is in hundredths of a millisecond.  *)
(* Scores are integers in ten-thousandths (round(score, 4) * 10000).       *)
(***************************************************************************)
EXTENDS Integers, Sequences, FiniteSets, TLC

(***************************************************************************)
(* Bounds of the model.                                                    *)
(***************************************************************************)
\* longest listing batch one fetch path returns
MaxBatch == 2
\* largest --sample value tried (the smallest is -1)
MaxSample == 2
\* largest --workers value tried (the smallest is 0)
MaxWorkers == 2
\* most listings in the list the probe phase is started on alone
MaxRows == 3
\* longest list filter_servers is applied to alone
MaxRaw == 2
\* longest collected list the merge is started on alone
MaxMerge == 2
\* longest run of digits in the map identifiers parse_map is tried on
MaxDigits == 3
\* longest list of servers with different scores that is ranked
MaxRanked == 2

(***************************************************************************)
(* Python strings and values.                                              *)
(***************************************************************************)
\* the characters the model's strings use, in code-point order
CodePoints ==
    << " ", "+", ",", "-", "0", "1", "2", "3", "4", "5", "6", "7", "8", "9", ":",
       "A", "B", "C", "D", "L", "M", "V", "_",
       "a", "c", "d", "e", "f", "g", "h", "i", "k", "l", "m", "n", "o", "p",
       "r", "s", "t", "u", "v", "x" >>

Ord(c) == CHOOSE i \in 1..Len(CodePoints) : CodePoints[i] = c

Digits == {"0", "1", "2", "3", "4", "5", "6", "7", "8", "9"}

DigitVal(c) == Ord(c) - Ord("0")

\* str.lower() on one character
LowerChar(c) ==
    CASE c = "A" -> "a" [] c = "B" -> "b" [] c = "C" -> "c" [] c = "D" -> "d"
      [] c = "L" -> "l" [] c = "M" -> "m" [] c = "V" -> "v" [] OTHER -> c

Lower(s) == [i \in 1..Len(s) |-> LowerChar(s[i])]

\* s.startswith(p)
StartsWith(s, p) == Len(s) >= Len(p) /\ SubSeq(s, 1, Len(p)) = p

\* needle in hay, scanning the start positions left to right
RECURSIVE ContainsFrom(_, _, _)
ContainsFrom(needle, hay, k) ==
    IF k + Len(needle) - 1 > Len(hay) THEN FALSE
    ELSE IF SubSeq(hay, k, k + Len(needle) - 1) = needle THEN TRUE
    ELSE ContainsFrom(needle, hay, k + 1)

Contains(needle, hay) == ContainsFrom(needle, hay, 1)

\* s.split(":"): the pieces between the colons
RECURSIVE SplitFrom(_, _, _)
SplitFrom(s, k, cur) ==
    IF k > Len(s) THEN << cur >>
    ELSE IF s[k] = ":" THEN << cur >> \o SplitFrom(s, k + 1, << >>)
    ELSE SplitFrom(s, k + 1, Append(cur, s[k]))

Split(s) == SplitFrom(s, 1, << >>)

\* str.isdigit()
IsDigit(s) == Len(s) > 0 /\ \A i \in 1..Len(s) : s[i] \in Digits

\* str.strip() of blanks
RECURSIVE Strip(_)
Strip(s) ==
    IF Len(s) = 0 THEN s
    ELSE IF s[1] = " " THEN Strip(Tail(s))
    ELSE IF s[Len(s)] = " " THEN Strip(SubSeq(s, 1, Len(s) - 1))
    ELSE s

RECURSIVE DigitsValue(_)
DigitsValue(s) ==
    IF Len(s) = 0 THEN 0
    ELSE 10 * DigitsValue(SubSeq(s, 1, Len(s) - 1)) + DigitVal(s[Len(s)])

\* the unsigned part of an int() literal, after strip and sign
IntBody(s) ==
    LET t == Strip(s)
    IN  IF Len(t) > 0 /\ t[1] \in {"+", "-"} THEN Tail(t) ELSE t

\* int(s) succeeds on a string
IntParses(s) == IsDigit(IntBody(s))

\* int(s) of a string it succeeds on
IntOfStr(s) ==
    LET t == Strip(s)
    IN  IF t[1] = "-" THEN 0 - DigitsValue(IntBody(s)) ELSE DigitsValue(IntBody(s))

\* a JSON field of a listing: absent, an int, a bool (i is 0 or 1) or a string
Absent == [t |-> "absent", i |-> 0, s |-> << >>]
IntV(n) == [t |-> "int", i |-> n, s |-> << >>]
BoolV(b) == [t |-> "bool", i |-> IF b THEN 1 ELSE 0, s |-> << >>]
StrV(cs) == [t |-> "str", i |-> 0, s |-> cs]
\* Python's None
PyNone == [t |-> "None", i |-> 0, s |-> << >>]

\* s.get(key, default)
Get(v, default) == IF v.t = "absent" THEN default ELSE v

\* the truth value of a Python value
Truthy(v) ==
    CASE v.t = "int" -> v.i # 0
      [] v.t = "bool" -> v.i = 1
      [] v.t = "str" -> Len(v.s) > 0
      [] OTHER -> FALSE

\* x or y
Or(x, y) == IF Truthy(x) THEN x ELSE y

\* int(v) raises
IntRaises(v) ==
    CASE v.t \in {"int", "bool"} -> FALSE
      [] v.t = "str" -> ~IntParses(v.s)
      [] OTHER -> TRUE

\* int(v) where it does not raise
IntOf(v) == IF v.t = "str" THEN IntOfStr(v.s) ELSE v.i

\* the decimal digits of a natural number
RECURSIVE NatStr(_)
NatStr(n) ==
    IF n < 10 THEN << CodePoints[Ord("0") + n] >>
    ELSE Append(NatStr(n \div 10), CodePoints[Ord("0") + (n % 10)])

\* str(v)
Str(v) ==
    CASE v.t = "str" -> v.s
      [] v.t = "int" -> IF v.i < 0 THEN << "-" >> \o NatStr(0 - v.i) ELSE NatStr(v.i)
      [] OTHER -> << "N", "o", "n", "e" >>

(***************************************************************************)
(* Constants of the program.                                               *)
(***************************************************************************)
\* "Valve Left4Dead 2", the prefix filter_servers asks of a name
VENDOR_PREFIX ==
    << "V", "a", "l", "v", "e", " ", "L", "e", "f", "t", "4", "D", "e", "a", "d",
       " ", "2" >>
\* "versus", the substring filter_servers asks of a gametype
MODE_TAG == << "v", "e", "r", "s", "u", "s" >>
\* the player counts filter_servers keeps
ALLOWED_PLAYERS == {5, 6, 7}

\* the default ping_ms of a row, 9999.0, in tenths of a millisecond
SENTINEL10 == 99990
\* best_expected_ping and worst_expected_ping, in tenths of a millisecond
BEST_PING10 == 400
WORST_PING10 == 3500

\* the weights, in hundredths
WEIGHT_PLAYERS == 150
WEIGHT_PING == 250
WEIGHT_MAPS_REMAIN == 90
WEIGHT_CAMPAIGN_PREF == 200
WEIGHT_CAMPAIGN_COMPLETION == 200

\* the campaign preference table (all its values are whole numbers)
CAMPAIGN_PREFERENCE ==
    [c \in 1..14 |->
        CASE c \in {10, 11} -> 2
          [] c = 8 -> 3
          [] c \in {1, 5, 12} -> 4
          [] c \in {4, 6} -> 6
          [] OTHER -> 5]

CAMPAIGN_MAP_COUNT ==
    [c \in 1..14 |->
        CASE c \in {9, 14} -> 2
          [] c \in {6, 7} -> 3
          [] c \in {1, 3, 13} -> 4
          [] OTHER -> 5]

\* the factors of score_server are fractions over this denominator: the least
\* common multiple of the denominators 2, 3100, 4, 9 and maps_in_campaign - 1
FactorDen == 2 * (WORST_PING10 - BEST_PING10) * 9

Min(a, b) == IF a <= b THEN a ELSE b
Max(a, b) == IF a >= b THEN a ELSE b

(***************************************************************************)
(* parse_map                                                               *)
(***************************************************************************)
\* how many digits follow from position k on
RECURSIVE DigitRun(_, _)
DigitRun(s, k) ==
    IF k <= Len(s) /\ s[k] \in Digits THEN 1 + DigitRun(s, k + 1) ELSE 0

\* MAP_RE.match(s): ^c\d{1,2}m\d{1,2}_.* ignoring case
MapMatches(s) ==
    /\ Len(s) >= 1
    /\ LowerChar(s[1]) = "c"
    /\ LET r1 == DigitRun(s, 2)
       IN  /\ r1 \in {1, 2}
           /\ Len(s) >= 2 + r1
           /\ LowerChar(s[2 + r1]) = "m"
           /\ LET r2 == DigitRun(s, 3 + r1)
              IN  /\ r2 \in {1, 2}
                  /\ Len(s) >= 3 + r1 + r2
                  /\ s[3 + r1 + r2] = "_"

\* parse_map(map_str): << campaign, map >>, << 0, 0 >> when unknown
parse_map(s) ==
    IF ~MapMatches(s) THEN << 0, 0 >>
    ELSE LET r1 == DigitRun(s, 2)
             r2 == DigitRun(s, 3 + r1)
         IN  << DigitsValue(SubSeq(s, 2, 1 + r1)),
                DigitsValue(SubSeq(s, 3 + r1, 2 + r1 + r2)) >>

(***************************************************************************)
(* filter_servers                                                          *)
(***************************************************************************)
\* the four tests with the gametype compared as it is, not lower-cased
FilterKeepsCaseSensitive(s) ==
    LET name == Or(Get(s.name, StrV(<< >>)), StrV(<< >>)).s
        gametype == Or(Get(s.gametype, StrV(<< >>)), StrV(<< >>)).s
        players == IntOf(Or(Get(s.players, IntV(0)), IntV(0)))
        secure == Truthy(Get(s.secure, BoolV(FALSE)))
    IN  IF ~StartsWith(name, VENDOR_PREFIX) THEN FALSE
        ELSE IF ~Contains(MODE_TAG, gametype) THEN FALSE
        ELSE IF players \notin ALLOWED_PLAYERS THEN FALSE
        ELSE IF ~secure THEN FALSE
        ELSE TRUE

\* the four tests of the loop body: TRUE when the listing is appended
FilterKeeps(s) ==
    LET name == Or(Get(s.name, StrV(<< >>)), StrV(<< >>)).s
        gametype == Lower(Or(Get(s.gametype, StrV(<< >>)), StrV(<< >>)).s)
        players == IntOf(Or(Get(s.players, IntV(0)), IntV(0)))
        secure == Truthy(Get(s.secure, BoolV(FALSE)))
    IN  IF ~StartsWith(name, VENDOR_PREFIX) THEN FALSE
        ELSE IF ~Contains(MODE_TAG, gametype) THEN FALSE
        ELSE IF players \notin ALLOWED_PLAYERS THEN FALSE
        ELSE IF ~secure THEN FALSE
        ELSE TRUE

\* filter_servers(raw): the loop over raw, appending to out
RECURSIVE FilterLoop(_, _, _)
FilterLoop(rawList, k, out) ==
    IF k > Len(rawList) THEN out
    ELSE FilterLoop(rawList, k + 1,
                    IF FilterKeeps(rawList[k]) THEN Append(out, rawList[k]) ELSE out)

filter_servers(rawList) == FilterLoop(rawList, 1, << >>)

\* the exception the loop body raises on listing s, "" when it raises none:
\* .lower() of a gametype that is not a string, int() of a player count that
\* is not a number, .startswith of a name that is not a string
FilterError(s) ==
    IF Or(Get(s.gametype, StrV(<< >>)), StrV(<< >>)).t # "str" THEN "AttributeError"
    ELSE IF IntRaises(Or(Get(s.players, IntV(0)), IntV(0))) THEN "ValueError"
    ELSE IF Or(Get(s.name, StrV(<< >>)), StrV(<< >>)).t # "str" THEN "AttributeError"
    ELSE ""

\* filter_servers(raw) raises: the loop meets a listing its body raises on
FilterRaises(rawList) == \E k \in 1..Len(rawList) : FilterError(rawList[k]) # ""

(***************************************************************************)
(* fetch_servers_multi: the deduplication key                              *)
(***************************************************************************)
HasColon(addr) == \E i \in 1..Len(addr) : addr[i] = ":"

\* "ip, port_str = addr.split(":")" raises ValueError unless there are two pieces
UnpackRaises(addr) == HasColon(addr) /\ Len(Split(addr)) # 2

\* the port of the key of listing s: an int value, or None
KeyPort(s) ==
    IF Len(s.addr) > 0 /\ HasColon(s.addr)
    THEN LET port_str == StrV(Split(s.addr)[2])
             first == Get(s.gameport, port_str)
         IN  IF ~IntRaises(first) THEN IntV(IntOf(first))
             ELSE IF ~IntRaises(port_str) THEN IntV(IntOf(port_str))
             ELSE PyNone
    ELSE LET first == Get(s.gameport, IntV(0))
         IN  IF ~IntRaises(first) THEN IntV(IntOf(first)) ELSE PyNone

\* key = (ip, port) of listing s, where the unpacking does not raise
DedupKey(s) ==
    IF Len(s.addr) > 0 /\ HasColon(s.addr)
    THEN << Split(s.addr)[1], KeyPort(s) >>
    ELSE << s.addr, KeyPort(s) >>

\* the loop "for s in results": first seen wins
RECURSIVE DedupLoop(_, _, _, _)
DedupLoop(res, k, seen, dd) ==
    IF k > Len(res) THEN dd
    ELSE LET key == DedupKey(res[k])
         IN  IF key \notin seen
             THEN DedupLoop(res, k + 1, seen \cup {key}, Append(dd, res[k]))
             ELSE DedupLoop(res, k + 1, seen, dd)

\* a deduplication that keys on the host alone
RECURSIVE DedupByIpLoop(_, _, _, _)
DedupByIpLoop(res, k, seen, dd) ==
    IF k > Len(res) THEN dd
    ELSE LET key == DedupKey(res[k])[1]
         IN  IF key \notin seen
             THEN DedupByIpLoop(res, k + 1, seen \cup {key}, Append(dd, res[k]))
             ELSE DedupByIpLoop(res, k + 1, seen, dd)

DedupeByIp(res) == DedupByIpLoop(res, 1, {}, << >>)

Dedupe(res) == DedupLoop(res, 1, {}, << >>)

\* the loop raises at the first listing whose address does not unpack
DedupeRaises(res) == \E k \in 1..Len(res) : UnpackRaises(res[k].addr)

(***************************************************************************)
(* generate_ranked_rows: building a row                                    *)
(***************************************************************************)
RowIp(s) == IF HasColon(s.addr) THEN Split(s.addr)[1] ELSE s.addr

RowPortStr(s) ==
    IF HasColon(s.addr) THEN StrV(Split(s.addr)[2])
    ELSE StrV(Str(Get(s.gameport, StrV(<< >>))))

\* the condition of the conditional expression that computes "port"
RowPortIsNumeric(s) ==
    IsDigit(Str(Get(s.gameport, StrV(<< >>)))) \/ IsDigit(RowPortStr(s).s)

\* building the row of listing s raises
RowRaises(s) ==
    \/ UnpackRaises(s.addr)
    \/ RowPortIsNumeric(s) /\ IntRaises(Get(s.gameport, RowPortStr(s)))
    \/ IntRaises(Or(Get(s.players, IntV(0)), IntV(0)))

RowPort(s) ==
    IF RowPortIsNumeric(s) THEN IntV(IntOf(Get(s.gameport, RowPortStr(s))))
    ELSE Get(s.gameport, RowPortStr(s))

\* the row of listing s; score is 0 until the scoring loop sets it
MakeRow(s) ==
    [ name |-> Get(s.name, StrV(<< >>)),
      map |-> s.map,
      players |-> IntOf(Or(Get(s.players, IntV(0)), IntV(0))),
      ip |-> RowIp(s),
      port |-> RowPort(s),
      secure |-> Truthy(Get(s.secure, BoolV(FALSE))),
      gametype |-> Get(s.gametype, StrV(<< >>)),
      ping_ms |-> SENTINEL10,
      score |-> 0 ]

BuildRows(keptList) == [k \in 1..Len(keptList) |-> MakeRow(keptList[k])]

BuildRowsRaises(keptList) == \E k \in 1..Len(keptList) : RowRaises(keptList[k])

(***************************************************************************)
(* score_server                                                            *)
(***************************************************************************)
\* players_norm, over FactorDen
PlayersNorm(entry) ==
    LET players == entry.players
    IN  CASE players = 5 -> 0
          [] players = 6 -> FactorDen \div 2
          [] players = 7 -> FactorDen
          [] OTHER -> 0

\* float(entry.get("ping_ms", 9999.0) or 9999.0), in tenths
ScoredPing(entry) == IF entry.ping_ms # 0 THEN entry.ping_ms ELSE SENTINEL10

\* ping_norm, over FactorDen
PingNorm(entry) ==
    LET ping == ScoredPing(entry)
        span == WORST_PING10 - BEST_PING10
        unclamped == (FactorDen \div span) * (span - (ping - BEST_PING10))
    IN  Max(0, Min(FactorDen, unclamped))

MapsInCampaign(campaign) ==
    IF campaign \in DOMAIN CAMPAIGN_MAP_COUNT THEN CAMPAIGN_MAP_COUNT[campaign] ELSE 4

\* maps_left_norm, over FactorDen
MapsLeftNorm(entry) ==
    LET pm == parse_map(entry.map)
    IN  (FactorDen \div 4) * (MapsInCampaign(pm[1]) - pm[2])

\* campaign_completion_norm, over FactorDen
CompletionNorm(entry) ==
    LET pm == parse_map(entry.map)
        mc == MapsInCampaign(pm[1])
    IN  FactorDen - (FactorDen \div (mc - 1)) * (pm[2] - 1)

\* campaign_norm, over FactorDen
CampaignNorm(entry) ==
    LET pm == parse_map(entry.map)
        pref == IF pm[1] \in DOMAIN CAMPAIGN_PREFERENCE
                THEN CAMPAIGN_PREFERENCE[pm[1]] ELSE 5
        pref_clamped == Max(1, Min(10, pref))
    IN  FactorDen - (FactorDen \div 9) * (pref_clamped - 1)

\* the locals of score_server: the parsed map and the five factors
Factors(entry) ==
    [ campaign |-> parse_map(entry.map)[1],
      map_idx |-> parse_map(entry.map)[2],
      players |-> PlayersNorm(entry),
      ping |-> PingNorm(entry),
      maps |-> MapsLeftNorm(entry),
      pref |-> CampaignNorm(entry),
      completion |-> CompletionNorm(entry) ]

\* total_score * 100 * FactorDen
TotalScore(entry) ==
    LET f == Factors(entry)
    IN  WEIGHT_PLAYERS * f.players + WEIGHT_PING * f.ping
          + WEIGHT_MAPS_REMAIN * f.maps + WEIGHT_CAMPAIGN_PREF * f.pref
          + WEIGHT_CAMPAIGN_COMPLETION * f.completion

\* round(score_server(r), 4), in ten-thousandths: the nearest integer to
\* TotalScore / (FactorDen / 100)  (no total lies half way between two)
score_server(entry) ==
    LET den == FactorDen \div 100
    IN  (TotalScore(entry) + den \div 2) \div den

(***************************************************************************)
(* rows.sort(key=...)                                                      *)
(***************************************************************************)
\* string comparison: a < b by code points
RECURSIVE StrLess(_, _)
StrLess(a, b) ==
    IF Len(b) = 0 THEN FALSE
    ELSE IF Len(a) = 0 THEN TRUE
    ELSE IF a[1] # b[1] THEN Ord(a[1]) < Ord(b[1])
    ELSE StrLess(Tail(a), Tail(b))

\* a sort key that leaves the score out
SortKeyNoScore(r) == << 0, r.ping_ms, 0 - r.players, r.name.s >>

\* the sort key (-score, ping_ms, -players, name)
SortKey(r) == << 0 - r.score, r.ping_ms, 0 - r.players, r.name.s >>

\* key tuple a < key tuple b
KeyLess(a, b) ==
    IF a[1] # b[1] THEN a[1] < b[1]
    ELSE IF a[2] # b[2] THEN a[2] < b[2]
    ELSE IF a[3] # b[3] THEN a[3] < b[3]
    ELSE StrLess(a[4], b[4])

\* a comparison on the first three keys only
RowLessNoName(r, q) ==
    LET a == SortKey(r)
        b == SortKey(q)
    IN  IF a[1] # b[1] THEN a[1] < b[1]
        ELSE IF a[2] # b[2] THEN a[2] < b[2]
        ELSE a[3] < b[3]

\* r sorts strictly before q
RowLess(r, q) == KeyLess(SortKey(r), SortKey(q))

\* insert r after every element that does not sort after it (a stable sort)
RECURSIVE InsertSorted(_, _)
InsertSorted(r, sorted) ==
    IF Len(sorted) = 0 THEN << r >>
    ELSE IF RowLess(r, sorted[1]) THEN << r >> \o sorted
    ELSE << sorted[1] >> \o InsertSorted(r, Tail(sorted))

RECURSIVE SortFrom(_, _, _)
SortFrom(list, k, sorted) ==
    IF k > Len(list) THEN sorted
    ELSE SortFrom(list, k + 1, InsertSorted(list[k], sorted))

\* a sort that loses the first element of its input
SortRowsFromSecond(list) == SortFrom(list, 2, << >>)

SortRows(list) == SortFrom(list, 1, << >>)

(***************************************************************************)
(* icmp_ping_ip                                                            *)
(***************************************************************************)
\* what one run of ping can do: raise (a timeout of subprocess.run), exit
\* with a non-zero code, print no "time=... ms", print a time that float()
\* rejects (as "time=1.2.3 ms"), or print a round-trip time (in hundredths
\* of a millisecond; none of them half way between two tenths)
ProbeOutputs ==
    { [kind |-> "raise", ms100 |-> 0],
      [kind |-> "nonzero", ms100 |-> 0],
      [kind |-> "nomatch", ms100 |-> 0],
      [kind |-> "badfloat", ms100 |-> 0],
      [kind |-> "time", ms100 |-> 4],
      [kind |-> "time", ms100 |-> 8012] }

\* a probe that reports a failure as -1.0
icmp_ping_ip_minus_one(o) ==
    IF o.kind = "time" THEN (o.ms100 + 5) \div 10 ELSE 0 - 10

\* icmp_ping_ip's return value for the output o, in tenths of a millisecond
icmp_ping_ip(o) ==
    IF o.kind = "raise" THEN SENTINEL10
    ELSE IF o.kind = "nonzero" THEN SENTINEL10
    ELSE IF o.kind = "nomatch" THEN SENTINEL10
    ELSE IF o.kind = "badfloat" THEN SENTINEL10
    ELSE (o.ms100 + 5) \div 10

(***************************************************************************)
(* The listings the directory service returns in the model.                *)
(***************************************************************************)
Listing(addr, gameport, name, gametype, players, secure, map) ==
    [ addr |-> addr, gameport |-> gameport, name |-> name, gametype |-> gametype,
      players |-> players, secure |-> secure, map |-> map ]

NameA == StrV(VENDOR_PREFIX \o << " ", "A" >>)
NameB == StrV(VENDOR_PREFIX \o << " ", "B" >>)
Versus == StrV(<< "v", "e", "r", "s", "u", "s" >>)
Coop == StrV(<< "c", "o", "o", "p" >>)
MapDrainage == << "c", "1", "0", "m", "2", "_", "d" >>
MapOffices == << "c", "1", "1", "m", "2", "_", "o" >>

\* a server that passes the filter
SrvH == Listing(<< "h", ":", "1" >>, Absent, NameA, Versus, IntV(6), BoolV(TRUE), MapDrainage)
\* the same server as another path saw it, in another game mode
SrvHCoop == Listing(<< "h", ":", "1" >>, Absent, NameA, Coop, IntV(6), BoolV(TRUE), MapDrainage)
\* another server with the same name, player count and score
SrvG == Listing(<< "g", ":", "1" >>, Absent, NameA, Versus, IntV(6), BoolV(TRUE), MapOffices)
\* a server with another name and an explicit game port
SrvK == Listing(<< "k", ":", "1" >>, IntV(2), NameB, Versus, IntV(6), BoolV(TRUE), MapDrainage)
\* two listings whose gameport is not a number and whose address suffixes
\* are signed numbers
SrvNeg1 == Listing(<< "h", ":", "-", "1" >>, StrV(<< "x" >>), NameA, Versus, IntV(6),
                   BoolV(TRUE), MapDrainage)
SrvNeg2 == Listing(<< "h", ":", "-", "2" >>, StrV(<< "x" >>), NameA, Versus, IntV(6),
                   BoolV(TRUE), MapOffices)

\* the directory's listings, in the order a response lists them
Catalogue == << SrvH, SrvHCoop, SrvG, SrvK, SrvNeg1, SrvNeg2 >>

\* the listings of Catalogue at the positions in S, in Catalogue's order
RECURSIVE Pick(_, _)
Pick(S, k) ==
    IF k > Len(Catalogue) THEN << >>
    ELSE IF k \in S THEN << Catalogue[k] >> \o Pick(S, k + 1)
    ELSE Pick(S, k + 1)

\* what a path's response can hold: up to MaxBatch of the listings
Batches ==
    {Pick(S, 1) : S \in {T \in SUBSET (1..Len(Catalogue)) : Cardinality(T) <= MaxBatch}}

\* the values of --proxy tried
ProxyLists == {<< >>, << "p1" >>}

(***************************************************************************)
(* The state.                                                              *)
(***************************************************************************)
VARIABLES
    pc,            \* where the main thread is
    err,           \* the exception that left generate_ranked_rows, "" if none
    include_direct, proxies, sample, workers,   \* the arguments
    fstate,        \* fetch task -> "running", "done", "collected"
    fbatch,        \* fetch task -> what _single_fetch returned
    ffailed,       \* fetch task -> _single_fetch caught an exception (kept
                   \* to the end of the run, as a history)
    offered,       \* history: the listings the paths have returned so far
    results,       \* fetch_servers_multi's results
    deduped,       \* fetch_servers_multi's deduped
    raw, kept, rows,                            \* generate_ranked_rows's locals
    n,             \* parallel_icmp's n
    nsub,          \* how many probe tasks are submitted
    tstate,        \* probe task -> "queued", "running", "done", "written"
    tout,          \* probe task -> the output its ping produced
    probeCount,    \* row index -> how many probes were started for it
    scoredN,       \* how many rows the scoring loop has done
    factors,       \* row index -> the factors score_server computed for it
    ranked         \* the returned list

argVars == << include_direct, proxies, sample, workers >>
fetchVars == << fstate, fbatch, ffailed, offered, results, deduped >>
probeVars == << n, nsub, tstate, tout, probeCount >>
vars == << pc, err, argVars, fetchVars, raw, kept, rows, probeVars, scoredN,
           factors, ranked >>

\* the fetch tasks: 0 is the direct pass, i the pass through proxies[i]
Tasks == (IF include_direct THEN {0} ELSE {}) \cup (1..Len(proxies))

NoOutput == [kind |-> "none", ms100 |-> 0]

Init ==
    /\ pc = "fetch"
    /\ err = ""
    /\ include_direct \in BOOLEAN
    /\ proxies \in ProxyLists
    /\ sample \in {0, MaxSample}
    /\ workers \in {1, MaxWorkers}
    /\ fstate = [p \in Tasks |-> "running"]
    /\ fbatch = [p \in Tasks |-> << >>]
    /\ ffailed = [p \in Tasks |-> FALSE]
    /\ offered = {}
    /\ results = << >>
    /\ deduped = << >>
    /\ raw = << >>
    /\ kept = << >>
    /\ rows = << >>
    /\ n = 0
    /\ nsub = 0
    /\ tstate = << >>
    /\ tout = << >>
    /\ probeCount = << >>
    /\ scoredN = 0
    /\ factors = << >>
    /\ ranked = << >>

(***************************************************************************)
(* fetch_servers_multi                                                     *)
(***************************************************************************)
\* a _single_fetch without its try/except: the request's exception leaves
\* the task and the whole fetch
SingleFetchAborts(p) ==
    /\ pc = "fetch"
    /\ fstate[p] = "running"
    /\ \/ \E b \in Batches :
             /\ fbatch' = [fbatch EXCEPT ![p] = b]
             /\ offered' = offered \cup {b[k] : k \in 1..Len(b)}
             /\ ffailed' = ffailed
             /\ UNCHANGED << pc, err >>
       \/ /\ fbatch' = [fbatch EXCEPT ![p] = << >>]
          /\ ffailed' = [ffailed EXCEPT ![p] = TRUE]
          /\ offered' = offered
          /\ pc' = "raised"
          /\ err' = "RequestException"
    /\ fstate' = [fstate EXCEPT ![p] = "done"]
    /\ UNCHANGED << argVars, results, deduped, raw, kept, rows,
                    probeVars, scoredN, factors, ranked >>

\* a fetch task ends: _single_fetch returns the response's servers, or
\* catches the request's exception and returns []
SingleFetch(p) ==
    /\ pc = "fetch"
    /\ fstate[p] = "running"
    /\ \/ \E b \in Batches :
             /\ fbatch' = [fbatch EXCEPT ![p] = b]
             /\ offered' = offered \cup {b[k] : k \in 1..Len(b)}
             /\ ffailed' = ffailed
       \/ /\ fbatch' = [fbatch EXCEPT ![p] = << >>]
          /\ ffailed' = [ffailed EXCEPT ![p] = TRUE]
          /\ offered' = offered
    /\ fstate' = [fstate EXCEPT ![p] = "done"]
    /\ UNCHANGED << pc, err, argVars, results, deduped, raw, kept, rows,
                    probeVars, scoredN, factors, ranked >>

\* as_completed yields a finished task: results.extend(batch)
Collect(p) ==
    /\ pc = "fetch"
    /\ fstate[p] = "done"
    /\ results' = results \o fbatch[p]
    /\ fstate' = [fstate EXCEPT ![p] = "collected"]
    /\ UNCHANGED << pc, err, argVars, fbatch, ffailed, offered, deduped, raw, kept,
                    rows, probeVars, scoredN, factors, ranked >>

\* as_completed is exhausted and the executor's with-block is left
FetchJoin ==
    /\ pc = "fetch"
    /\ \A p \in Tasks : fstate[p] = "collected"
    /\ pc' = "dedupe"
    /\ UNCHANGED << err, argVars, fetchVars, raw, kept, rows, probeVars, scoredN,
                    factors, ranked >>

\* the deduplication loop
Deduplicate ==
    /\ pc = "dedupe"
    /\ IF DedupeRaises(results)
       THEN /\ pc' = "raised"
            /\ err' = "ValueError"
            /\ deduped' = deduped
       ELSE /\ pc' = "fetched"
            /\ err' = err
            /\ deduped' = Dedupe(results)
    /\ UNCHANGED << argVars, fstate, fbatch, ffailed, offered, results, raw, kept,
                    rows, probeVars, scoredN, factors, ranked >>

\* "return deduped": the caller's raw is bound and the locals are gone
FetchReturn ==
    /\ pc = "fetched"
    /\ raw' = deduped
    /\ fstate' = << >>
    /\ fbatch' = << >>
    /\ results' = << >>
    /\ deduped' = << >>
    /\ pc' = "filter"
    /\ UNCHANGED << err, argVars, ffailed, offered, kept, rows, probeVars, scoredN,
                    factors, ranked >>

(***************************************************************************)
(* generate_ranked_rows, up to the probe                                   *)
(***************************************************************************)
\* kept = filter_servers(raw)
FilterServers ==
    /\ pc = "filter"
    /\ IF FilterRaises(raw)
       THEN /\ pc' = "raised"
            /\ err' = FilterError(raw[CHOOSE k \in 1..Len(raw) :
                                         /\ FilterError(raw[k]) # ""
                                         /\ \A j \in 1..(k - 1) : FilterError(raw[j]) = ""])
            /\ kept' = kept
       ELSE /\ pc' = "rows"
            /\ err' = err
            /\ kept' = filter_servers(raw)
    /\ UNCHANGED << argVars, fetchVars, raw, rows, probeVars, scoredN,
                    factors, ranked >>

\* the loop that builds rows
MakeRows ==
    /\ pc = "rows"
    /\ IF BuildRowsRaises(kept)
       THEN /\ pc' = "raised"
            /\ err' = "ValueError"
            /\ UNCHANGED << rows, probeCount >>
       ELSE /\ pc' = "probe"
            /\ err' = err
            /\ rows' = BuildRows(kept)
            /\ probeCount' = [i \in 1..Len(kept) |-> 0]
    /\ UNCHANGED << argVars, fetchVars, raw, kept, n, nsub, tstate, tout, scoredN,
                    factors, ranked >>

(***************************************************************************)
(* parallel_icmp                                                           *)
(***************************************************************************)
\* a pool of exactly the configured number of workers
PoolSizeUnclamped == workers

\* max_workers of the probe pool
PoolSize == Max(1, workers)

\* every row is sampled
SampleSizeAll(smp, len) == len

\* n = min(sample, len(rows))
SampleSize(smp, len) == Min(smp, len)

Running == {i \in DOMAIN tstate : tstate[i] = "running"}

\* n = min(sample, len(rows)); return when n <= 0, else open the pool
ParallelIcmpEnter ==
    /\ pc = "probe"
    /\ n' = SampleSize(sample, Len(rows))
    /\ nsub' = 0
    /\ IF n' <= 0
       THEN /\ pc' = "probed"
            /\ UNCHANGED << tstate, tout >>
       ELSE /\ pc' = "submit"
            /\ tstate' = [i \in 1..n' |-> "unsubmitted"]
            /\ tout' = [i \in 1..n' |-> NoOutput]
    /\ UNCHANGED << err, argVars, fetchVars, raw, kept, rows, probeCount, scoredN,
                    factors, ranked >>

\* ex.submit(icmp_ping_ip, r["ip"]) for the next of targets = rows[:n]
Submit ==
    /\ pc = "submit"
    /\ nsub < n
    /\ nsub' = nsub + 1
    /\ tstate' = [tstate EXCEPT ![nsub + 1] = "queued"]
    /\ pc' = IF nsub + 1 = n THEN "await" ELSE "submit"
    /\ UNCHANGED << err, argVars, fetchVars, raw, kept, rows, n, tout, probeCount,
                    scoredN, factors, ranked >>

\* a pool without a limit
CanStartAlways == TRUE

\* a pool thread may take a task: fewer than max_workers threads are busy
CanStart == Cardinality(Running) < PoolSize

\* a pool thread takes the oldest queued task and starts its ping
ProbeStart(i) ==
    /\ pc \in {"submit", "await"}
    /\ tstate[i] = "queued"
    /\ \A j \in 1..(i - 1) : tstate[j] # "queued"
    /\ CanStart
    /\ tstate' = [tstate EXCEPT ![i] = "running"]
    /\ probeCount' = [probeCount EXCEPT ![i] = @ + 1]
    /\ UNCHANGED << pc, err, argVars, fetchVars, raw, kept, rows, n, nsub, tout,
                    scoredN, factors, ranked >>

\* the ping of task i ends and icmp_ping_ip returns
ProbeFinish(i) ==
    /\ pc \in {"submit", "await"}
    /\ tstate[i] = "running"
    /\ \E o \in ProbeOutputs : tout' = [tout EXCEPT ![i] = o]
    /\ tstate' = [tstate EXCEPT ![i] = "done"]
    /\ UNCHANGED << pc, err, argVars, fetchVars, raw, kept, rows, n, nsub,
                    probeCount, scoredN, factors, ranked >>

\* every future mapped to the first row
RowOfTaskFirst(i) == 1

\* the row the future of task i maps to in future_to_row
RowOfTask(i) == i

\* a write that sets the score along with the latency
WriteLatencyAndScore(r, v) == [r EXCEPT !.ping_ms = v, !.score = v]

\* r["ping_ms"] = v
WriteLatency(r, v) == [r EXCEPT !.ping_ms = v]

\* as_completed yields task i: r["ping_ms"] = float(fut.result())
CollectProbe(i) ==
    /\ pc = "await"
    /\ tstate[i] = "done"
    /\ rows' = [rows EXCEPT ![RowOfTask(i)] = WriteLatency(@, icmp_ping_ip(tout[i]))]
    /\ tstate' = [tstate EXCEPT ![i] = "written"]
    /\ UNCHANGED << pc, err, argVars, fetchVars, raw, kept, n, nsub, tout,
                    probeCount, scoredN, factors, ranked >>

\* a pool that is left without waiting for its probes
ProbeJoinNoWait ==
    /\ pc = "await"
    /\ pc' = "probed"
    /\ UNCHANGED << err, argVars, fetchVars, raw, kept, rows, probeVars, scoredN,
                    factors, ranked >>

\* as_completed is exhausted and the pool's with-block is left
ProbeJoin ==
    /\ pc = "await"
    /\ \A i \in DOMAIN tstate : tstate[i] = "written"
    /\ pc' = "probed"
    /\ UNCHANGED << err, argVars, fetchVars, raw, kept, rows, probeVars, scoredN,
                    factors, ranked >>

\* parallel_icmp returns: its locals are gone
ParallelIcmpReturn ==
    /\ pc = "probed"
    /\ n' = 0
    /\ nsub' = 0
    /\ tstate' = << >>
    /\ tout' = << >>
    /\ pc' = "score"
    /\ UNCHANGED << err, argVars, fetchVars, raw, kept, rows, probeCount, scoredN,
                    factors, ranked >>

(***************************************************************************)
(* generate_ranked_rows: scoring and ranking                               *)
(***************************************************************************)
\* one turn of "for r in rows: r["score"] = round(score_server(r), 4)"
ScoreNext ==
    /\ pc = "score"
    /\ scoredN < Len(rows)
    /\ rows' = [rows EXCEPT ![scoredN + 1].score = score_server(rows[scoredN + 1])]
    /\ factors' = Append(factors, Factors(rows[scoredN + 1]))
    /\ scoredN' = scoredN + 1
    /\ UNCHANGED << pc, err, argVars, fetchVars, raw, kept, probeVars, ranked >>

\* rows.sort(key=...) and return rows.  rows keeps the order before the
\* sort; ranked is the list after it, which is returned.
SortAndReturn ==
    /\ pc = "score"
    /\ scoredN = Len(rows)
    /\ ranked' = SortRows(rows)
    /\ pc' = "done"
    /\ UNCHANGED << err, argVars, fetchVars, raw, kept, rows, probeVars, scoredN,
                    factors >>

Next ==
    \/ \E p \in Tasks : SingleFetch(p)
    \/ \E p \in Tasks : Collect(p)
    \/ FetchJoin
    \/ Deduplicate
    \/ FetchReturn
    \/ FilterServers
    \/ MakeRows
    \/ ParallelIcmpEnter
    \/ Submit
    \/ \E i \in DOMAIN tstate : ProbeStart(i)
    \/ \E i \in DOMAIN tstate : ProbeFinish(i)
    \/ \E i \in DOMAIN tstate : CollectProbe(i)
    \/ ProbeJoin
    \/ ParallelIcmpReturn
    \/ ScoreNext
    \/ SortAndReturn

Spec == Init /\ [][Next]_vars

(***************************************************************************)
(* The pipeline with its threads scheduled fairly, for zero, one and two    *)
(* paths, every sample count from -1 and every worker count from 0 (with   *)
(* two paths, the worker count 0).  Every request and every ping is        *)
(* bounded by its timeout, so a running fetch or probe task ends; a pool   *)
(* thread that is free takes a queued task; the main thread, when it is    *)
(* not blocked in as_completed or in a pool's exit, takes its next step.   *)
(***************************************************************************)
InitLive ==
    /\ pc = "fetch"
    /\ err = ""
    /\ include_direct \in BOOLEAN
    /\ proxies \in ProxyLists
    /\ sample \in -1..MaxSample
    /\ workers \in 0..MaxWorkers
    /\ Len(proxies) > 0 => workers = 0
    /\ fstate = [p \in Tasks |-> "running"]
    /\ fbatch = [p \in Tasks |-> << >>]
    /\ ffailed = [p \in Tasks |-> FALSE]
    /\ offered = {}
    /\ results = << >>
    /\ deduped = << >>
    /\ raw = << >>
    /\ kept = << >>
    /\ rows = << >>
    /\ n = 0
    /\ nsub = 0
    /\ tstate = << >>
    /\ tout = << >>
    /\ probeCount = << >>
    /\ scoredN = 0
    /\ factors = << >>
    /\ ranked = << >>

\* the steps of the thread that runs generate_ranked_rows, but for the
\* merge loop, the scoring loop and the sort
MainThread ==
    \/ \E p \in Tasks : Collect(p)
    \/ FetchJoin
    \/ FetchReturn
    \/ FilterServers
    \/ MakeRows
    \/ ParallelIcmpEnter
    \/ Submit
    \/ \E i \in DOMAIN tstate : CollectProbe(i)
    \/ ProbeJoin
    \/ ParallelIcmpReturn

\* the merge loop, the scoring loop and the sort wait for nothing: the main
\* thread does not rest in them forever.  Deduplicate is enabled exactly
\* where pc = "dedupe", ScoreNext and SortAndReturn between them exactly
\* where pc = "score", so this is their weak fairness.
MainThreadComputes == []<>(pc \notin {"dedupe", "score"})

Fairness ==
    /\ WF_vars(MainThread)
    /\ MainThreadComputes
    /\ WF_vars(\E p \in Tasks : SingleFetch(p))
    /\ WF_vars(\E i \in DOMAIN tstate : ProbeStart(i))
    /\ WF_vars(\E i \in DOMAIN tstate : ProbeFinish(i))

SpecLive == InitLive /\ [][Next]_vars /\ Fairness

(***************************************************************************)
(* parallel_icmp on its own: the probe phase started on the rows of every  *)
(* filtered, deduplicated choice of up to MaxRows listings, for every      *)
(* sample from -1 and every worker count from 0.                           *)
(***************************************************************************)
InitProbe ==
    /\ pc = "probe"
    /\ err = ""
    /\ include_direct = TRUE
    /\ proxies = << >>
    /\ sample \in -1..MaxSample
    /\ workers \in 0..MaxWorkers
    /\ fstate = << >>
    /\ fbatch = << >>
    /\ ffailed = [p \in {0} |-> FALSE]
    /\ \E S \in {T \in SUBSET (1..Len(Catalogue)) : Cardinality(T) <= MaxRows} :
          /\ offered = {Catalogue[k] : k \in S}
          /\ raw = Dedupe(Pick(S, 1))
    /\ results = << >>
    /\ deduped = << >>
    /\ kept = filter_servers(raw)
    /\ rows = BuildRows(kept)
    /\ n = 0
    /\ nsub = 0
    /\ tstate = << >>
    /\ tout = << >>
    /\ probeCount = [i \in 1..Len(kept) |-> 0]
    /\ scoredN = 0
    /\ factors = << >>
    /\ ranked = << >>

NextProbe ==
    \/ ParallelIcmpEnter
    \/ Submit
    \/ \E i \in DOMAIN tstate : ProbeStart(i)
    \/ \E i \in DOMAIN tstate : ProbeFinish(i)
    \/ \E i \in DOMAIN tstate : CollectProbe(i)
    \/ ProbeJoin
    \/ ParallelIcmpReturn

SpecProbe == InitProbe /\ [][NextProbe]_vars

(***************************************************************************)
(* filter_servers on its own: applied to every list of up to MaxRaw of the *)
(* listings below, each SrvH with one field changed.                       *)
(***************************************************************************)
FilterInputs ==
    { SrvH,
      [SrvH EXCEPT !.players = IntV(5)],
      [SrvH EXCEPT !.players = IntV(7)],
      [SrvH EXCEPT !.players = IntV(4)],
      [SrvH EXCEPT !.players = IntV(8)],
      [SrvH EXCEPT !.players = IntV(0)],
      [SrvH EXCEPT !.players = Absent],
      [SrvH EXCEPT !.name = StrV(SubSeq(VENDOR_PREFIX, 1, Len(VENDOR_PREFIX) - 2))],
      [SrvH EXCEPT !.name = StrV(<< "x" >> \o VENDOR_PREFIX)],
      [SrvH EXCEPT !.name = StrV(Lower(VENDOR_PREFIX))],
      [SrvH EXCEPT !.name = Absent],
      [SrvH EXCEPT !.gametype = StrV(<< "V", "e", "r", "s", "u", "s" >>)],
      [SrvH EXCEPT !.gametype = StrV(Coop.s \o << "," >> \o Versus.s)],
      [SrvH EXCEPT !.gametype = StrV(<< "v", "e", "r", "s", "u" >>)],
      [SrvH EXCEPT !.gametype = Coop],
      [SrvH EXCEPT !.gametype = Absent],
      [SrvH EXCEPT !.secure = BoolV(FALSE)],
      [SrvH EXCEPT !.secure = Absent] }

InitFilter ==
    /\ pc = "filter"
    /\ err = ""
    /\ include_direct = TRUE
    /\ proxies = << >>
    /\ sample = 0
    /\ workers = 1
    /\ fstate = << >>
    /\ fbatch = << >>
    /\ ffailed = [p \in {0} |-> FALSE]
    /\ raw \in UNION {[1..k -> FilterInputs] : k \in 0..MaxRaw}
    /\ offered = {raw[k] : k \in 1..Len(raw)}
    /\ results = << >>
    /\ deduped = << >>
    /\ kept = << >>
    /\ rows = << >>
    /\ n = 0
    /\ nsub = 0
    /\ tstate = << >>
    /\ tout = << >>
    /\ probeCount = << >>
    /\ scoredN = 0
    /\ factors = << >>
    /\ ranked = << >>

NextFilter == FilterServers

SpecFilter == InitFilter /\ [][NextFilter]_vars

(***************************************************************************)
(* The merge onwards on its own: the deduplication loop started on every   *)
(* collected list of up to MaxMerge of the listings below (SrvH with its   *)
(* address, game port, player count or map changed), then the filter, the  *)
(* rows, the scoring and the sort, with no row sampled.                    *)
(***************************************************************************)
MergeInputs ==
    { SrvH,
      \* an address with two colons
      [SrvH EXCEPT !.addr = << "h", ":", "1", ":", "2" >>],
      \* no port at all: an address without a colon and no gameport
      [SrvH EXCEPT !.addr = << "h" >>],
      \* a port that is 0
      [SrvH EXCEPT !.addr = << "h", ":", "0" >>],
      \* address suffixes that are not numbers, and no gameport
      [SrvH EXCEPT !.addr = << "h", ":", "a" >>],
      [SrvH EXCEPT !.addr = << "h", ":", "c" >>],
      \* a gameport that is not a number, without and with an address suffix
      [SrvH EXCEPT !.addr = << "h" >>, !.gameport = StrV(<< "x" >>)],
      [SrvH EXCEPT !.gameport = StrV(<< "a", "c" >>)],
      \* a player count that is not a number
      [SrvH EXCEPT !.players = StrV(<< "x" >>)],
      \* a map identifier that does not parse
      [SrvH EXCEPT !.map = << "x" >>] }

InitMerge ==
    /\ pc = "dedupe"
    /\ err = ""
    /\ include_direct = TRUE
    /\ proxies = << >>
    /\ sample = 0
    /\ workers = 1
    /\ results \in UNION {[1..k -> MergeInputs] : k \in 0..MaxMerge}
    /\ fstate = [p \in {0} |-> "collected"]
    /\ fbatch = [p \in {0} |-> results]
    /\ ffailed = [p \in {0} |-> FALSE]
    /\ offered = {results[k] : k \in 1..Len(results)}
    /\ deduped = << >>
    /\ raw = << >>
    /\ kept = << >>
    /\ rows = << >>
    /\ n = 0
    /\ nsub = 0
    /\ tstate = << >>
    /\ tout = << >>
    /\ probeCount = << >>
    /\ scoredN = 0
    /\ factors = << >>
    /\ ranked = << >>

NextMerge ==
    \/ Deduplicate
    \/ FetchReturn
    \/ FilterServers
    \/ MakeRows
    \/ ParallelIcmpEnter
    \/ ParallelIcmpReturn
    \/ ScoreNext
    \/ SortAndReturn

SpecMerge == InitMerge /\ [][NextMerge]_vars

(***************************************************************************)
(* Scoring and ranking on their own, with no row sampled: the probe stage, *)
(* the scoring loop and the sort started on the row of one server with     *)
(* every map identifier of MapInputs, and on every list of up to MaxRanked *)
(* of the servers of RankInputs, whose scores and player counts differ.    *)
(***************************************************************************)
\* the runs of up to MaxDigits of the digits 0 and 1
DigitStrs == UNION {[1..k -> {"0", "1"}] : k \in 0..MaxDigits}

\* map identifiers around the shape c<digits>m<digits>_<rest>
MapInputs ==
    { c \o d1 \o m \o d2 \o u \o rest :
        c \in {<< "c" >>, << "C" >>, << "x" >>},
        d1 \in DigitStrs,
        m \in {<< "m" >>, << "M" >>, << >>},
        d2 \in DigitStrs,
        u \in {<< "_" >>, << >>},
        rest \in {<< "d" >>, << >>} }

\* a server with 5 players on the first map of a campaign
SrvEarly == Listing(<< "e", ":", "1" >>, Absent, NameA, Versus, IntV(5), BoolV(TRUE),
                    << "c", "1", "0", "m", "1", "_", "d" >>)
\* a server with 7 players on the last map of a campaign
SrvLate == Listing(<< "l", ":", "1" >>, Absent, NameB, Versus, IntV(7), BoolV(TRUE),
                   << "c", "1", "0", "m", "5", "_", "d" >>)

RankInputs == {SrvH, SrvK, SrvEarly, SrvLate}

\* the filtered lists tried: one server with any of the map identifiers or
\* player counts, or different servers of RankInputs in any order
ScoreLists ==
    {<< [SrvH EXCEPT !.map = mp] >> : mp \in MapInputs}
      \cup {<< [SrvH EXCEPT !.players = IntV(k)] >> : k \in ALLOWED_PLAYERS}
      \cup {l \in UNION {[1..k -> RankInputs] : k \in 0..MaxRanked} :
               \A i, j \in 1..Len(l) : i # j => l[i] # l[j]}

InitScore ==
    /\ pc = "probe"
    /\ err = ""
    /\ include_direct = TRUE
    /\ proxies = << >>
    /\ sample = 0
    /\ workers = 1
    /\ fstate = << >>
    /\ fbatch = << >>
    /\ ffailed = [p \in {0} |-> FALSE]
    /\ kept \in ScoreLists
    /\ raw = kept
    /\ offered = {kept[k] : k \in 1..Len(kept)}
    /\ results = << >>
    /\ deduped = << >>
    /\ rows = BuildRows(kept)
    /\ n = 0
    /\ nsub = 0
    /\ tstate = << >>
    /\ tout = << >>
    /\ probeCount = [i \in 1..Len(kept) |-> 0]
    /\ scoredN = 0
    /\ factors = << >>
    /\ ranked = << >>

NextScore ==
    \/ ParallelIcmpEnter
    \/ ParallelIcmpReturn
    \/ ScoreNext
    \/ SortAndReturn

SpecScore == InitScore /\ [][NextScore]_vars

(***************************************************************************)
(* The properties.                                                         *)
(***************************************************************************)
\* the four clauses of the filter, as the specification words them
ClausePrefix(s) ==
    /\ s.name.t = "str"
    /\ \A i \in 1..Len(VENDOR_PREFIX) : i <= Len(s.name.s) /\ s.name.s[i] = VENDOR_PREFIX[i]

ClauseMode(s) ==
    /\ s.gametype.t = "str"
    /\ \E k \in 0..Len(s.gametype.s) :
          \A j \in 1..Len(MODE_TAG) :
              /\ k + j <= Len(s.gametype.s)
              /\ LowerChar(s.gametype.s[k + j]) = MODE_TAG[j]

ClausePlayers(s) == (IF s.players.t = "int" THEN s.players.i ELSE 0) \in {5, 6, 7}

ClauseSecure(s) == s.secure = BoolV(TRUE)

PassesAllFour(s) == ClausePrefix(s) /\ ClauseMode(s) /\ ClausePlayers(s) /\ ClauseSecure(s)

KeysOf(list) == {DedupKey(list[k]) : k \in 1..Len(list)}

Count(list, x) == Cardinality({k \in 1..Len(list) : list[k] = x})

\* the (ip, port) of a row
Address(r) == << r.ip, r.port >>

\* the rows exist: the row-building loop has run
RowsBuilt == pc \in {"probe", "submit", "await", "probed", "score", "done"}

\* C1: the list fetch_servers_multi returns holds no two entries with the
\* same (host, port) key, and no two rows built from it by
\* generate_ranked_rows share the same (ip, port)
C1_UniqueKeysAndAddresses ==
    /\ pc = "fetched" =>
          \A i, j \in 1..Len(deduped) :
              i # j => DedupKey(deduped[i]) # DedupKey(deduped[j])
    /\ RowsBuilt =>
          \A i, j \in 1..Len(rows) : i # j => Address(rows[i]) # Address(rows[j])

\* C2: the keys of the list fetch_servers_multi returns are exactly the
\* distinct keys of all the paths' results, each once, whatever the order
\* in which the fetch tasks were collected
C2_KeysAreUnionOfPaths ==
    pc = "fetched" =>
       /\ KeysOf(deduped) = UNION {KeysOf(fbatch[p]) : p \in Tasks}
       /\ Cardinality(KeysOf(deduped)) = Len(deduped)

\* two paths returned overlapping but different sets of servers, and the
\* merge dropped a duplicate
C2_Witness ==
    /\ pc = "fetched"
    /\ Tasks = {0, 1}
    /\ KeysOf(fbatch[0]) \cap KeysOf(fbatch[1]) # {}
    /\ KeysOf(fbatch[0]) \ KeysOf(fbatch[1]) # {}
    /\ KeysOf(fbatch[1]) \ KeysOf(fbatch[0]) # {}
    /\ Len(deduped) = 3
    /\ Len(results) = 4

\* the places of the listings the fetch tasks returned
BatchPlaces == UNION {{<< p, k >> : k \in 1..Len(fbatch[p])} : p \in Tasks}

AllPathsFailed == \A p \in Tasks : ffailed[p]

\* C3: a failed path contributes an empty result and nothing else: every
\* listing of every other path is collected, the fetch does not abort, and
\* when every path fails the fetch returns [] and the pipeline returns an
\* empty ranking without raising
C3_FailedPathIsEmptyOnly ==
    /\ \A p \in DOMAIN fbatch : ffailed[p] => fbatch[p] = << >>
    /\ pc \in {"dedupe", "fetched"} =>
          \A k \in 1..Len(Catalogue) :
              Count(results, Catalogue[k])
                = Cardinality({pk \in BatchPlaces : fbatch[pk[1]][pk[2]] = Catalogue[k]})
    /\ (\E p \in Tasks : ffailed[p]) => pc # "raised"
    /\ AllPathsFailed =>
          /\ pc = "fetched" => deduped = << >>
          /\ pc \notin {"fetch", "dedupe", "fetched"} => raw = << >>
          /\ pc = "done" => ranked = << >> /\ err = ""

\* one path failed and the other path's two listings are both merged
C3_Witness ==
    /\ pc = "fetched"
    /\ \E p, q \in Tasks :
          /\ ffailed[p]
          /\ ~ffailed[q]
          /\ Len(fbatch[q]) = 2
    /\ Len(deduped) = 2

\* C4: when the paths return two copies of one server, one passing all four
\* filter clauses and one failing the game-mode clause only, the ranking
\* holds exactly one record of that server, whichever task came first
C4_OneRecordWhicheverFirst ==
    pc = "done" =>
       \A x, y \in offered :
           ( /\ DedupKey(x) = DedupKey(y)
             /\ PassesAllFour(x)
             /\ ~ClauseMode(y)
             /\ ClausePrefix(y) /\ ClausePlayers(y) /\ ClauseSecure(y) )
           => Cardinality({k \in 1..Len(ranked) :
                              Address(ranked[k]) = << RowIp(x), RowPort(x) >>}) = 1

\* C5: filter_servers returns, in input order, exactly the listings for
\* which all four clauses hold, an absent player count counting as 0 and an
\* absent tag as the empty string
C5_FilterKeepsExactlyPassing ==
    pc = "rows" => kept = SelectSeq(raw, PassesAllFour)

\* a listing without a player count is dropped and the one after it kept
C5_Witness ==
    /\ pc = "rows"
    /\ Len(raw) = 2
    /\ raw[1].players = Absent
    /\ PassesAllFour(raw[2])
    /\ kept = << raw[2] >>

RECURSIVE SumSeq(_)
SumSeq(s) == IF Len(s) = 0 THEN 0 ELSE s[1] + SumSeq(Tail(s))

\* parallel_icmp has been entered
ProbeEntered == pc \in {"submit", "await", "probed"}

\* min(N, recordCount)
MinSampleCount == IF sample <= Len(rows) THEN sample ELSE Len(rows)

\* C6 as claimed: probes are started only for the first min(N, recordCount)
\* rows, never more than min(N, recordCount) of them, and every row at
\* position N or later has the sentinel latency when the stage returns
C6_ProbesWithinSample ==
    /\ \A i \in DOMAIN probeCount : probeCount[i] > 0 => i <= MinSampleCount
    /\ ProbeEntered => SumSeq(probeCount) <= MinSampleCount
    /\ pc = "probed" =>
          \A i \in 1..Len(rows) : i - 1 >= sample => rows[i].ping_ms = SENTINEL10

\* C6 as amended: as claimed, with the number of probes bounded by
\* max(0, min(N, recordCount)), which is 0 probes for a negative N
C6_ProbesWithinSampleOrNone ==
    /\ \A i \in DOMAIN probeCount : probeCount[i] > 0 => i <= MinSampleCount
    /\ ProbeEntered =>
          SumSeq(probeCount) <= (IF MinSampleCount >= 0 THEN MinSampleCount ELSE 0)
    /\ pc = "probed" =>
          \A i \in 1..Len(rows) : i - 1 >= sample => rows[i].ping_ms = SENTINEL10

\* two of three rows were sampled and measured; the third was not probed
C6_Witness ==
    /\ pc = "probed"
    /\ sample = 2
    /\ Len(rows) = 3
    /\ probeCount = << 1, 1, 0 >>
    /\ rows[1].ping_ms # SENTINEL10
    /\ rows[2].ping_ms # SENTINEL10
    /\ rows[3].ping_ms = SENTINEL10

\* the latency a ping output stands for: its time to the nearest tenth of a
\* millisecond, the sentinel when the probe failed
LatencyOf(o) ==
    IF o.kind = "time"
    THEN CHOOSE t \in 0..(o.ms100 \div 10 + 1) : 10 * t - 5 <= o.ms100 /\ o.ms100 < 10 * t + 5
    ELSE SENTINEL10

\* C7: when parallel_icmp returns, every sampled row has been probed exactly
\* once and holds the latency of its own probe, the sentinel if it failed
C7_EachSampledProbedOnce ==
    pc = "probed" =>
       \A i \in 1..Len(rows) :
           IF i <= sample
           THEN /\ probeCount[i] = 1
                /\ i \in DOMAIN tout
                /\ rows[i].ping_ms = LatencyOf(tout[i])
           ELSE probeCount[i] = 0

\* two probes ran on two workers; the first measured 80.1 ms, the second failed
C7_Witness ==
    /\ pc = "probed"
    /\ workers = 2
    /\ n = 2
    /\ tout[1] = [kind |-> "time", ms100 |-> 8012]
    /\ tout[2].kind = "nonzero"
    /\ rows[1].ping_ms = 801
    /\ rows[2].ping_ms = SENTINEL10

\* C8 as claimed: at most W probes are active at any time
C8_ActiveAtMostW == Cardinality(Running) <= workers

\* C8 as amended: at most max(1, W) probes are active at any time, so a
\* task beyond the pool size stays queued until an active probe finishes
C8_ActiveAtMostPoolSize ==
    Cardinality(Running) <= (IF workers >= 1 THEN workers ELSE 1)

\* the one worker is busy and a submitted task waits in the queue
C8_Witness ==
    /\ workers = 1
    /\ Cardinality(Running) = 1
    /\ \E i \in DOMAIN tstate : tstate[i] = "queued"

\* C9: the latency factor is within [0, 1], is 1 for a latency of at most
\* 40 ms and 0 for one of at least 350 ms, and does not increase with the
\* latency, over all latencies from 0
C9_LatencyFactor ==
    \A i \in 1..Len(factors) :
        /\ factors[i].ping >= 0
        /\ factors[i].ping <= FactorDen
        /\ rows[i].ping_ms <= BEST_PING10 => factors[i].ping = FactorDen
        /\ rows[i].ping_ms >= WORST_PING10 => factors[i].ping = 0
        /\ \A j \in 1..Len(factors) :
               rows[i].ping_ms <= rows[j].ping_ms => factors[j].ping <= factors[i].ping

Reverse(list) == [i \in 1..Len(list) |-> list[Len(list) + 1 - i]]

\* the four sort keys of a row
FourKeys(r) == << r.score, r.ping_ms, r.players, r.name.s >>

\* r may stand before q: score descending, then latency ascending, then
\* player count descending, then name ascending
MayPrecede(r, q) ==
    \/ r.score > q.score
    \/ /\ r.score = q.score
       /\ \/ r.ping_ms < q.ping_ms
          \/ /\ r.ping_ms = q.ping_ms
             /\ \/ r.players > q.players
                \/ /\ r.players = q.players
                   /\ (r.name.s = q.name.s \/ StrLess(r.name.s, q.name.s))

InClaimedOrder(list) ==
    \A i, j \in 1..Len(list) : i < j => MayPrecede(list[i], list[j])

NoFourKeyTie(list) ==
    \A i, j \in 1..Len(list) : i # j => FourKeys(list[i]) # FourKeys(list[j])

\* C10 as claimed: the ranking is in the four-key order, and sorting the
\* reversed list gives the identical ranking
C10_SortIgnoresInputOrder ==
    pc = "done" =>
       /\ InClaimedOrder(ranked)
       /\ SortRows(Reverse(rows)) = ranked

\* C10 as amended: the ranking is in the four-key order; sorting the
\* reversed list gives the same sequence of sort keys, and the identical
\* ranking when no two rows agree on all four keys
C10_SortIgnoresInputOrderUpToTies ==
    pc = "done" =>
       /\ InClaimedOrder(ranked)
       /\ [i \in 1..Len(rows) |-> FourKeys(SortRows(Reverse(rows))[i])]
            = [i \in 1..Len(ranked) |-> FourKeys(ranked[i])]
       /\ NoFourKeyTie(rows) => SortRows(Reverse(rows)) = ranked

\* three rows without a tie, two of them measured, which the sort reordered
C10_Witness ==
    /\ pc = "done"
    /\ Len(rows) = 3
    /\ NoFourKeyTie(rows)
    /\ rows[1].ping_ms = SENTINEL10
    /\ rows[2].ping_ms = 801
    /\ ranked # rows
    /\ ranked # Reverse(rows)

\* C11: the core never raises to its caller, whatever the listings hold: a
\* malformed address, a port or player count that is not a number, a map
\* identifier that does not parse are absorbed into default field values
C11_CoreNeverRaises == pc # "raised" /\ err = ""

\* the shape c<campaign>m<map>_<rest>, letters in either case, each number
\* of one or two digits
MatchesShape(s) ==
    \E a, b \in {1, 2} :
        /\ Len(s) >= 3 + a + b
        /\ s[1] \in {"c", "C"}
        /\ \A k \in 2..(1 + a) : s[k] \in Digits
        /\ s[2 + a] \in {"m", "M"}
        /\ \A k \in (3 + a)..(2 + a + b) : s[k] \in Digits
        /\ s[3 + a + b] = "_"

\* C12: parse_map returns (0, 0) exactly for the identifiers that do not have
\* the shape, returns two positive numbers for those that have it, and
\* never raises
C12_ParseMapZeroIffNoMatch ==
    /\ pc # "raised"
    /\ \A i \in 1..Len(factors) :
           LET parsed == << factors[i].campaign, factors[i].map_idx >>
           IN  /\ parsed = << 0, 0 >> <=> ~MatchesShape(rows[i].map)
               /\ MatchesShape(rows[i].map) => parsed[1] > 0 /\ parsed[2] > 0

\* C13: each of the five factors of every scored record is within [0, 1]
C13_FactorsWithinUnit ==
    \A i \in 1..Len(factors) :
        /\ factors[i].players \in 0..FactorDen
        /\ factors[i].ping \in 0..FactorDen
        /\ factors[i].maps \in 0..FactorDen
        /\ factors[i].pref \in 0..FactorDen
        /\ factors[i].completion \in 0..FactorDen

\* C14: from the creation of the rows to the returned ranking, every row has
\* a latency, which is a non-negative number or the sentinel 9999.0 (the
\* sentinel as long as no probe of the row has been collected)
C14_LatencyAlwaysSet ==
    /\ \A i \in 1..Len(rows) :
           /\ "ping_ms" \in DOMAIN rows[i]
           /\ rows[i].ping_ms \in Nat
           /\ probeCount[i] = 0 => rows[i].ping_ms = SENTINEL10
    /\ \A i \in 1..Len(ranked) :
           /\ "ping_ms" \in DOMAIN ranked[i]
           /\ ranked[i].ping_ms \in Nat

\* the ranking holds a row whose probe failed and a row measured at 0.0 ms
C14_Witness ==
    /\ pc = "done"
    /\ \E i, j \in 1..Len(rows) :
          /\ probeCount[i] = 1
          /\ rows[i].ping_ms = SENTINEL10
          /\ probeCount[j] = 1
          /\ rows[j].ping_ms = 0
    /\ \E i \in 1..Len(ranked) : ranked[i].ping_ms = 0

\* r may stand before q by player count descending, then name ascending
ByPlayersThenName(r, q) ==
    \/ r.players > q.players
    \/ /\ r.players = q.players
       /\ (r.name.s = q.name.s \/ StrLess(r.name.s, q.name.s))

\* with a sample count of 0 no probe is started and every row has the
\* sentinel latency
NoProbeAllSentinel ==
    /\ \A i \in DOMAIN probeCount : probeCount[i] = 0
    /\ tstate = << >>
    /\ \A i \in 1..Len(rows) : rows[i].ping_ms = SENTINEL10
    /\ \A i \in 1..Len(ranked) : ranked[i].ping_ms = SENTINEL10

\* C15 as claimed: with a sample count of 0 no probe is issued, every record
\* keeps the sentinel latency, and the final order is by player count
\* descending, then name ascending
C15_OrderByTieBreakersOnly ==
    sample = 0 =>
       /\ NoProbeAllSentinel
       /\ pc = "done" =>
             \A i, j \in 1..Len(ranked) :
                 i < j => ByPlayersThenName(ranked[i], ranked[j])

\* C15 as amended: with a sample count of 0 no probe is issued, every record
\* keeps the sentinel latency, and the final order is by score descending,
\* then, among equal scores, by player count descending, then name
\* ascending: the latency decides nothing
C15_OrderByScoreThenTieBreakers ==
    sample = 0 =>
       /\ NoProbeAllSentinel
       /\ pc = "done" =>
             \A i, j \in 1..Len(ranked) :
                 i < j =>
                    \/ ranked[i].score > ranked[j].score
                    \/ /\ ranked[i].score = ranked[j].score
                       /\ ByPlayersThenName(ranked[i], ranked[j])

\* unsampled, the server with 5 players on a first map is ranked before the
\* server with 7 players on a last map, and two servers of equal score are
\* ranked by name
C15_Witness ==
    /\ sample = 0
    /\ pc = "done"
    /\ Len(ranked) = 2
    /\ ranked # rows
    /\ \/ ranked[1].players < ranked[2].players
       \/ /\ ranked[1].score = ranked[2].score
          /\ StrLess(ranked[1].name.s, ranked[2].name.s)

\* a probe task exists that has not been collected
ProbeInFlight == \E i \in DOMAIN tstate : tstate[i] # "written"

\* the scoring loop has begun
ScoringBegun == scoredN > 0 \/ pc = "done"

\* the stages are in sequence in this state: a probe task exists only after
\* every fetch task is collected and the merge and the filter are done; a
\* score is computed only after every sampled row's probe has been
\* collected; the sort runs only after every row is scored, on the scores
\* score_server gave
StagesInSequenceNow ==
    /\ (tstate # << >> \/ \E i \in DOMAIN probeCount : probeCount[i] > 0) =>
          /\ pc \notin {"fetch", "dedupe", "fetched", "filter", "rows"}
          /\ fstate = << >>
          /\ kept = filter_servers(raw)
          /\ Len(rows) = Len(kept)
    /\ ScoringBegun =>
          /\ ~ProbeInFlight
          /\ \A i \in 1..Len(rows) :
                 probeCount[i] = (IF i <= sample THEN 1 ELSE 0)
          /\ \A i \in 1..scoredN :
                 rows[i].score = score_server([rows[i] EXCEPT !.score = 0])
    /\ pc = "done" =>
          /\ scoredN = Len(rows)
          /\ \A i \in 1..Len(ranked) :
                 ranked[i].score = score_server([ranked[i] EXCEPT !.score = 0])

\* C16: the stages run strictly in sequence (no probe before the fetch, the
\* merge and the filter are done; no score before every probe is collected;
\* no sort before every row is scored), and once scoring has begun no step
\* writes a latency
C16_StagesInSequence ==
    /\ []StagesInSequenceNow
    /\ [][ScoringBegun =>
             \A i \in 1..Len(rows) : rows'[i].ping_ms = rows[i].ping_ms]_vars

\* two fetch tasks ran, two probes were collected and the first of three
\* rows is scored while the others are not yet
C16_Witness ==
    /\ pc = "score"
    /\ DOMAIN ffailed = {0, 1}
    /\ Len(rows) = 3
    /\ scoredN = 1
    /\ probeCount = << 1, 1, 0 >>
    /\ rows[1].score > 0
    /\ rows[2].score = 0

\* a row with its latency put back to the value it was created with
Unmeasured(r) == [r EXCEPT !.ping_ms = SENTINEL10]

\* the rows are the rows as built, in the same order, but for latencies of
\* sampled rows
OnlySampledLatenciesDiffer ==
    /\ [i \in 1..Len(rows) |-> Unmeasured(rows[i])] = BuildRows(kept)
    /\ \A i \in 1..Len(rows) : i > sample => rows[i].ping_ms = SENTINEL10

\* a step of the probe stage that collects the result of task k changes
\* no row but row k, and no other step changes a row
OneWritePerTask ==
    /\ Len(rows') = Len(rows)
    /\ \A i \in 1..Len(rows) :
           rows'[i] # rows[i] =>
              /\ i \in DOMAIN tstate
              /\ i <= sample
              /\ tstate[i] = "done"
              /\ tstate'[i] = "written"
    /\ \A k \in DOMAIN tstate :
           (tstate[k] = "written" /\ k \in DOMAIN tstate') => tstate'[k] = "written"

\* C17: parallel_icmp changes nothing but the latency of sampled rows (the
\* other fields, the latency of unsampled rows, the length and the order of
\* the list stay as they were), and it writes each row at most once, with
\* the result of the row's own task
C17_ProbeWritesLatencyOnly ==
    /\ []OnlySampledLatenciesDiffer
    /\ [][OneWritePerTask]_vars

\* one of three rows was sampled and measured at 0.0 ms; the two others
\* are as they were built
C17_Witness ==
    /\ pc = "probed"
    /\ sample = 1
    /\ Len(rows) = 3
    /\ rows[1].ping_ms = 0
    /\ rows[2] = BuildRows(kept)[2]
    /\ rows[3] = BuildRows(kept)[3]

\* the text after the colon of a listing's address, << >> when there is none
AddrSuffix(s) ==
    IF \E k \in 1..Len(s.addr) : s.addr[k] = ":"
    THEN LET c == CHOOSE k \in 1..Len(s.addr) : s.addr[k] = ":"
                                               /\ \A j \in 1..(k - 1) : s.addr[j] # ":"
         IN  SubSeq(s.addr, c + 1, Len(s.addr))
    ELSE << >>

\* a run of digits
IsNumber(cs) == Len(cs) > 0 /\ \A k \in 1..Len(cs) : cs[k] \in Digits

\* the listing's port cannot be parsed: its gameport is absent or not a
\* number, and its address has no numeric suffix
PortUnparsable(s) ==
    /\ s.gameport.t # "int"
    /\ ~(s.gameport.t = "str" /\ IsNumber(s.gameport.s))
    /\ ~IsNumber(AddrSuffix(s))

\* C18: in the merge a listing whose port cannot be parsed has a key that
\* no other listing has, so it is kept whatever else the list holds: never
\* merged with another listing of its host whose port cannot be parsed
\* either, and never with one whose port is 0
C18_UnparsablePortKeptApart ==
    pc = "fetched" =>
       \A i, j \in 1..Len(results) :
           (results[i] # results[j] /\ PortUnparsable(results[i])) =>
              /\ DedupKey(results[i]) # DedupKey(results[j])
              /\ Count(deduped, results[i]) = 1
              /\ Count(deduped, results[j]) = 1

\* a row as it was built: without its measured latency and its score
AsBuilt(r) == [r EXCEPT !.ping_ms = SENTINEL10, !.score = 0]

\* list holds, in some order, exactly the rows built from the kept listings
PermutationOfBuilt(list) ==
    /\ Len(list) = Len(kept)
    /\ \A k \in 1..Len(kept) :
           Cardinality({i \in 1..Len(list) : AsBuilt(list[i]) = MakeRow(kept[k])})
             = Cardinality({j \in 1..Len(kept) : MakeRow(kept[j]) = MakeRow(kept[k])})

\* C19: the returned sequence is a permutation of the rows built from the
\* listings filter_servers kept, one row for each; the probe, score and sort
\* stages neither drop, duplicate nor add a row
C19_RankingIsPermutation ==
    /\ RowsBuilt => PermutationOfBuilt(rows) /\ kept = filter_servers(raw)
    /\ pc = "done" => PermutationOfBuilt(ranked)

\* four listings were merged, the filter dropped one, and the three rows are
\* returned in another order than they were built in
C19_Witness ==
    /\ pc = "done"
    /\ Len(raw) = 4
    /\ Len(kept) = 3
    /\ Len(ranked) = 3
    /\ [i \in 1..3 |-> AsBuilt(ranked[i])] # BuildRows(kept)

\* C20: when every fetch request and every probe ends, the pipeline ends and
\* returns a ranking, for zero, one or two paths, every sample count from
\* -1 and every worker count from 0; at the return every sampled row's
\* probe has been started, none is left in the queue
C20_AlwaysTerminates ==
    /\ <>(pc = "done")
    /\ [](pc = "done" =>
             /\ err = ""
             /\ Len(ranked) = Len(rows)
             /\ \A i \in 1..Len(rows) :
                    probeCount[i] = (IF i <= sample THEN 1 ELSE 0))

\* with a worker count of 0 the pool of one worker ran the probes of two
\* rows one after the other, and the pipeline returned
C20_Witness ==
    /\ pc = "done"
    /\ workers = 0
    /\ sample = 2
    /\ probeCount = << 1, 1 >>
    /\ Len(ranked) = 2

====
